---------------------------- MODULE Spec2Model ----------------------------
(***************************************************************************)
(* The DAG pipeline orchestrator of Phase6_Orchestration/orchestrator.py:  *)
(* the task registry (Orchestrator.add), the dependency resolver           *)
(* (_topological_sort), the retry decorator (retry_with_backoff), the      *)
(* execution engine (run, _can_run, _execute_task) and the run recorder    *)
(* (_print_summary, _export_results); and the staged-validation stages     *)
(* (load to staging, transform and validate, load to production) of the    *)
(* reviews table, as orchestrator.py and as Phase4_AI_Search/M4_p2.py      *)
(* implement them.                                                         *)
(***************************************************************************)
EXTENDS Integers, Sequences, FiniteSets, TLC

VARIABLES
    tasks,      \* self.tasks: the registry, in insertion order (a Python dict)
    results,    \* self.results: task name -> TaskResult
    order,      \* run(): the list _topological_sort returned
    idx,        \* run(): position of the for loop in order
    pc,         \* where the orchestrator is: idle, call, sleep, done, aborted
    runs,       \* number of run() executions started on this object
    attempt,    \* wrapper(): the loop variable of the retry decorator
    calls,      \* invocations of the current task's underlying operation
    raised,     \* the failures the current task's operation raised, in order
    delays,     \* the delays time.sleep was called with for the current task
    last,       \* the last call of a task's callable that ended in this run
    invoked,    \* the tasks whose operation was invoked in this run
    considered, \* the tasks the for loop of run() reached in this run
    summary,    \* what _print_summary last logged
    exported,   \* what _export_results last wrote
    nExports,   \* number of _export_results calls in this run
    stg,        \* the rows of the staging table stg_reviews
    prod,       \* the rows of the production table reviews
    audit,      \* the rows of elt_audit_log
    stage,      \* the last invocation of a stage function and how it ended
    pending,    \* the tasks with writes in the open transaction of db.conn
    durable,    \* the committed writes: who wrote them, who committed them
    needing,    \* the products with no description or no embedding
    failing,    \* the products whose processing raises on every attempt
    MAX_PRODUCTS_TO_PROCESS,    \* the setting the generator script runs with
    overall_successful,
    overall_failed,
    batch_products,     \* the batch the loop last fetched
    gpc         \* the generator script: idle, fetch, process, ended

orchVars == <<tasks, results, order, idx, pc, runs, attempt, calls, raised,
              delays, last, invoked, considered, summary, exported, nExports>>

dbVars == <<stg, prod, audit, stage>>

connVars == <<pending, durable>>

genVars == <<needing, failing, MAX_PRODUCTS_TO_PROCESS, overall_successful,
             overall_failed, batch_products, gpc>>

vars == <<orchVars, dbVars, connVars, genVars>>

-----------------------------------------------------------------------------
(* Bounds of the model *)

MaxDeps == 2
MaxRuns == 2

(* CONFIG *)

MAX_RETRIES == 3
RETRY_DELAY == 2
RETRY_BACKOFF == 2

-----------------------------------------------------------------------------
(* Inputs *)

Names == {"A", "B", "C"}
Unknown == "X"

SeqsUpTo(S, n) == UNION {[1..k -> S] : k \in 0..n}

\* A task's callable: undecorated, or decorated by retry_with_backoff(max_retries)
Plain == [decorated |-> FALSE, max_retries |-> 0]
Retrying(n) == [decorated |-> TRUE, max_retries |-> n]

\* What an operation returns: a record count, or something that is not an int
IntValue(n) == [isInt |-> TRUE, n |-> n]
NoneValue == [isInt |-> FALSE, n |-> 0]

NoError == "None"

-----------------------------------------------------------------------------
(* Status, TaskResult, Task *)

Status == {"PENDING", "RUNNING", "SUCCESS", "FAILED", "SKIPPED"}

TaskResult(name, status, ended, records, error) ==
    [name |-> name, status |-> status, ended |-> ended,
     records |-> records, error |-> error, retries |-> 0]

Task(name, func, deps, critical) ==
    [name |-> name, func |-> func, deps |-> deps, critical |-> critical]

-----------------------------------------------------------------------------
(* The registry: a dict in insertion order *)

Registered(T) == {T[i].name : i \in 1..Len(T)}

IndexOf(T, name) == CHOOSE i \in 1..Len(T) : T[i].name = name

TaskOf(T, name) == T[IndexOf(T, name)]

\* self.tasks[name] = task: a new key is appended, an existing key keeps its place
DictSet(T, task) ==
    IF task.name \in Registered(T)
    THEN [T EXCEPT ![IndexOf(T, task.name)] = task]
    ELSE Append(T, task)

-----------------------------------------------------------------------------
(* _topological_sort *)

RECURSIVE visitPreorder(_, _, _)
RECURSIVE visitDepsPreorder(_, _, _, _)

\* visit with order.append(name) moved before the loop over the dependencies
visitPreorder(T, name, st) ==
    IF name \in st.visited
    THEN st
    ELSE LET st1 == [st EXCEPT !.visited = @ \cup {name}]
         IN  IF name \in Registered(T)
             THEN visitDepsPreorder(T, TaskOf(T, name).deps, 1,
                                    [st1 EXCEPT !.order = Append(@, name)])
             ELSE st1

visitDepsPreorder(T, deps, i, st) ==
    IF i > Len(deps)
    THEN st
    ELSE visitDepsPreorder(T, deps, i + 1, visitPreorder(T, deps[i], st))

RECURSIVE visit(_, _, _)
RECURSIVE visitDeps(_, _, _, _)

\* st = [visited, order], the two locals the closure shares
visit(T, name, st) ==
    IF name \in st.visited
    THEN st
    ELSE LET st1 == [st EXCEPT !.visited = @ \cup {name}]
         IN  IF name \in Registered(T)
             THEN LET st2 == visitDeps(T, TaskOf(T, name).deps, 1, st1)
                  IN  [st2 EXCEPT !.order = Append(@, name)]
             ELSE st1

visitDeps(T, deps, i, st) ==
    IF i > Len(deps)
    THEN st
    ELSE visitDeps(T, deps, i + 1, visit(T, deps[i], st))

\* the closing loop visiting only the task registered last
visitAllLast(T, i, st) ==
    IF Len(T) = 0
    THEN st
    ELSE visit(T, T[Len(T)].name, st)

RECURSIVE visitAllReversed(_, _, _)
\* the closing loop over reversed(self.tasks)
visitAllReversed(T, i, st) ==
    IF i > Len(T)
    THEN st
    ELSE visitAllReversed(T, i + 1, visit(T, T[Len(T) + 1 - i].name, st))

RECURSIVE visitAll(_, _, _)
visitAll(T, i, st) ==
    IF i > Len(T)
    THEN st
    ELSE visitAll(T, i + 1, visit(T, T[i].name, st))

TopologicalSort(T) == visitAll(T, 1, [visited |-> {}, order |-> <<>>]).order

-----------------------------------------------------------------------------
(* The run record: a dict *)

NoResults == [n \in {} |-> TaskResult(n, "PENDING", FALSE, 0, NoError)]

Put(res, name, r) ==
    [n \in (DOMAIN res) \cup {name} |-> IF n = name THEN r ELSE res[n]]

CountStatus(res, status) == Cardinality({n \in DOMAIN res : res[n].status = status})

\* _print_summary: the two counts it logs
PrintSummary(res) ==
    [success |-> CountStatus(res, "SUCCESS"), failed |-> CountStatus(res, "FAILED")]

\* _export_results: the "results" object of the JSON document
ExportResults(res) ==
    [n \in DOMAIN res |->
        [status |-> res[n].status, records |-> res[n].records, error |-> res[n].error]]

-----------------------------------------------------------------------------
(* retry_with_backoff *)

RECURSIVE Pow(_, _)
Pow(b, k) == IF k = 0 THEN 1 ELSE b * Pow(b, k - 1)

\* line 105 with "attempt > max_retries"
GivesUpLate(a, max_retries) == a > max_retries

\* line 105: the last attempt re-raises
GivesUp(a, max_retries) == a >= max_retries

\* line 107 with "** (attempt + 1)"
BackoffDelayNext(a) == RETRY_DELAY * Pow(RETRY_BACKOFF, a + 1)

\* line 107
BackoffDelay(a) == RETRY_DELAY * Pow(RETRY_BACKOFF, a)

\* whether a failure of attempt a of this callable propagates to the caller
Propagates(func, a) == ~func.decorated \/ GivesUp(a, func.max_retries)

-----------------------------------------------------------------------------
(* The execution engine *)

\* _can_run with "if result and result.status != Status.SUCCESS"
CanRunMissingOk(task, res) ==
    \A i \in 1..Len(task.deps) :
        task.deps[i] \in DOMAIN res => res[task.deps[i]].status = "SUCCESS"

\* _can_run
CanRun(task, res) ==
    \A i \in 1..Len(task.deps) :
        /\ task.deps[i] \in DOMAIN res
        /\ res[task.deps[i]].status = "SUCCESS"

Skipped(name) == TaskResult(name, "SKIPPED", TRUE, 0, NoError)

\* run(), lines 592-600: the for loop from position i, up to the next task whose
\* operation it invokes or to the end of the order
RECURSIVE loop(_, _, _, _, _)
loop(T, ord, res, i, cons) ==
    IF i > Len(ord)
    THEN [results |-> res, idx |-> i, considered |-> cons, pc |-> "done"]
    ELSE IF ~CanRun(TaskOf(T, ord[i]), res)
         THEN loop(T, ord, Put(res, ord[i], Skipped(ord[i])), i + 1, cons \cup {ord[i]})
         ELSE [results |-> res, idx |-> i, considered |-> cons \cup {ord[i]}, pc |-> "call"]

\* lines 605-607 without the break
haltContinues(res, i, cons) == loop(tasks, order, res, i + 1, cons)

\* run(), lines 605-607: the break after a critical task's failure
halt(res, i, cons) ==
    [results |-> res, idx |-> i, considered |-> cons, pc |-> "done"]

\* the engine goes on to st: into the next task's operation (a new call of its
\* callable), or through lines 609-611 (summary and export) to the end of run()
Proceed(st, ord, inv, nexp) ==
    /\ results' = st.results
    /\ idx' = st.idx
    /\ considered' = st.considered
    /\ pc' = st.pc
    /\ attempt' = 0
    /\ raised' = <<>>
    /\ delays' = <<>>
    /\ IF st.pc = "call"
       THEN /\ invoked' = inv \cup {ord[st.idx]}
            /\ calls' = 1
            /\ nExports' = nexp
            /\ UNCHANGED <<summary, exported>>
       ELSE /\ invoked' = inv
            /\ calls' = 0
            /\ summary' = PrintSummary(st.results)
            /\ exported' = ExportResults(st.results)
            /\ nExports' = nexp + 1

CurrentTask == TaskOf(tasks, order[idx])

NoCall == [task |-> "", ended |-> "none", calls |-> 0, raised |-> <<>>,
           delays |-> <<>>, value |-> NoneValue]

\* what is remembered of a call of the current task's callable when it ends
EndedCall(how, errs, v) ==
    [task |-> order[idx], ended |-> how, calls |-> calls, raised |-> errs,
     delays |-> delays, value |-> v]

\* _execute_task, lines 563-566, then run() lines 603-605: the callable returned v
Succeeds(v) ==
    LET name == order[idx]
        r == TaskResult(name, "SUCCESS", TRUE, IF v.isInt THEN v.n ELSE 0, NoError)
    IN  /\ last' = EndedCall("returned", raised, v)
        /\ \E st \in {loop(tasks, order, Put(results, name, r), idx + 1, considered)} :
              Proceed(st, order, invoked, nExports)

\* line 605 with "if result.status == Status.FAILED": every failure stops the run
FailsAlwaysHalts(e) ==
    LET name == order[idx]
        res == Put(results, name, TaskResult(name, "FAILED", TRUE, 0, e))
    IN  /\ last' = EndedCall("raised", Append(raised, e), NoneValue)
        /\ \E st \in {halt(res, idx, considered)} : Proceed(st, order, invoked, nExports)

\* _execute_task without its except clause: the failure leaves run()
FailsUncaught(e) ==
    /\ last' = EndedCall("raised", Append(raised, e), NoneValue)
    /\ pc' = "aborted"
    /\ UNCHANGED <<results, idx, considered, invoked, attempt, calls, raised,
                   delays, summary, exported, nExports>>

\* after the failure of a task that is not critical the for loop starts over
FailsRestarts(e) ==
    LET name == order[idx]
        res == Put(results, name, TaskResult(name, "FAILED", TRUE, 0, e))
    IN  /\ last' = EndedCall("raised", Append(raised, e), NoneValue)
        /\ \E st \in {IF CurrentTask.critical
                      THEN halt(res, idx, considered)
                      ELSE loop(tasks, order, res, 1, considered)} :
              Proceed(st, order, invoked, nExports)

\* _execute_task, lines 571-574, then run() lines 603-607: the callable raised e
Fails(e) ==
    LET name == order[idx]
        r == TaskResult(name, "FAILED", TRUE, 0, e)
        res == Put(results, name, r)
    IN  /\ last' = EndedCall("raised", Append(raised, e), NoneValue)
        /\ \E st \in {IF CurrentTask.critical
                      THEN halt(res, idx, considered)
                      ELSE loop(tasks, order, res, idx + 1, considered)} :
              Proceed(st, order, invoked, nExports)

-----------------------------------------------------------------------------
(* The reviews tables, the CSV source and the audit log *)

\* SQL NULL in a text column
Null == "<NULL>"

\* a rating longer than the VARCHAR(10) column of stg_reviews
LongRating == "12345678901"

\* a CSV file of DATA_DIR: absent, or a header line and rows
\* rows: the records after the header; lines: the physical lines after the header
NoFile == [exists |-> FALSE, rows |-> <<>>, lines |-> 0]
CsvFile(rows) == [exists |-> TRUE, rows |-> rows, lines |-> Len(rows)]

\* a file in which the quoted review_text of one record holds a line break
MultilineCsv(rows) == [exists |-> TRUE, rows |-> rows, lines |-> Len(rows) + 1]

RawRow(id, rating) == [review_id |-> id, rating |-> rating]

\* what the VARCHAR(10) column keeps of a value stored without strict mode
Stored(rating) == IF rating = LongRating THEN "1234567890" ELSE rating

\* a row as INSERT or LOAD DATA leaves it in stg_reviews: is_valid and
\* error_message take their column defaults
StagingRow(raw) ==
    [review_id |-> raw.review_id, rating |-> Stored(raw.rating),
     is_valid |-> FALSE, error_message |-> Null]

\* rating REGEXP '^[0-9]+$'
IsDigits(rating) == rating \in {"1", "3", "4", "5", "9", "1234567890"}

\* CAST(rating AS UNSIGNED)
Unsigned(rating) ==
    CASE rating = "1" -> 1
      [] rating = "3" -> 3
      [] rating = "4" -> 4
      [] rating = "5" -> 5
      [] rating = "9" -> 9
      [] rating = "1234567890" -> 1234567890
      [] OTHER -> 0

ProdRow(row, rating) == [review_id |-> row.review_id, rating |-> rating]

AuditRecord(stage_name, processed, valid, invalid, status) ==
    [stage |-> stage_name, records_processed |-> processed,
     records_valid |-> valid, records_invalid |-> invalid, status |-> status]

\* no stage function was invoked yet
NoStage ==
    [impl |-> "", name |-> "", source |-> NoFile, ended |-> "none", value |-> 0,
     ok |-> FALSE, promoted |-> {}, audited |-> FALSE]

\* an invocation of a stage function that ended: how ("returned" or "raised"),
\* the count it returned (orchestrator.py) or its True/False (M4_p2.py), the
\* review_ids it copied to production and whether it wrote an audit record
EndedStage(impl, name, source, how, value, ok, promoted, audited) ==
    [impl |-> impl, name |-> name, source |-> source, ended |-> how,
     value |-> value, ok |-> ok, promoted |-> promoted, audited |-> audited]

\* the database after create_schema
InitDB ==
    /\ stg = <<>>
    /\ prod = {}
    /\ audit = <<>>
    /\ stage = NoStage

\* MAX_PRODUCTS_TO_PROCESS: None, or a number
NoLimit == [none |-> TRUE, n |-> 0]
Limit(n) == [none |-> FALSE, n |-> n]

\* the generator script has not been started
InitGen ==
    /\ needing = {}
    /\ failing = {}
    /\ MAX_PRODUCTS_TO_PROCESS = NoLimit
    /\ overall_successful = 0
    /\ overall_failed = 0
    /\ batch_products = {}
    /\ gpc = "idle"

\* DatabaseConnection.connect: a new connection, nothing written
InitConn ==
    /\ pending = {}
    /\ durable = {}

\* the review_ids of a sequence of rows, and its rows flagged valid
Ids(rows) == {rows[i].review_id : i \in 1..Len(rows)}

Valid(rows) == SelectSeq(rows, LAMBDA r : r.is_valid)

\* the PRIMARY KEY of reviews rejects the INSERT ... SELECT of these rows
DuplicateKey(rows, table) ==
    \/ \E i, j \in 1..Len(rows) : i # j /\ rows[i].review_id = rows[j].review_id
    \/ \E i \in 1..Len(rows) : \E p \in table : p.review_id = rows[i].review_id

-----------------------------------------------------------------------------
(* Actions *)

Init ==
    /\ tasks = <<>>
    /\ results = NoResults
    /\ order = <<>>
    /\ idx = 0
    /\ pc = "idle"
    /\ runs = 0
    /\ attempt = 0
    /\ calls = 0
    /\ raised = <<>>
    /\ delays = <<>>
    /\ last = NoCall
    /\ invoked = {}
    /\ considered = {}
    /\ summary = PrintSummary(NoResults)
    /\ exported = ExportResults(NoResults)
    /\ nExports = 0
    /\ InitDB
    /\ InitConn
    /\ InitGen

\* Orchestrator.add
add(name, func, deps, critical) ==
    /\ pc \in {"idle", "done"}
    /\ tasks' = DictSet(tasks, Task(name, func, deps, critical))
    /\ UNCHANGED <<results, order, idx, pc, runs, attempt, calls, raised, delays,
                   last, invoked, considered, summary, exported, nExports>>
    /\ UNCHANGED <<dbVars, connVars, genVars>>

\* Orchestrator.run, from its call to the first operation it invokes
run ==
    /\ pc \in {"idle", "done"}
    /\ runs < MaxRuns
    /\ runs' = runs + 1
    /\ order' = TopologicalSort(tasks)
    /\ last' = NoCall
    /\ \E st \in {loop(tasks, order', results, 1, {})} : Proceed(st, order', {}, 0)
    /\ UNCHANGED tasks
    /\ UNCHANGED <<dbVars, connVars, genVars>>

\* the operation of the current task returns v
OpReturns(v) ==
    /\ pc = "call"
    /\ Succeeds(v)
    /\ UNCHANGED <<tasks, order, runs>>
    /\ UNCHANGED <<dbVars, connVars, genVars>>

\* the operation of the current task raises the Exception e: wrapper() lines
\* 104-109 when the callable is decorated
OpRaises(e) ==
    /\ pc = "call"
    /\ IF Propagates(CurrentTask.func, attempt)
       THEN Fails(e)
       ELSE /\ raised' = Append(raised, e)
            /\ delays' = Append(delays, BackoffDelay(attempt))
            /\ pc' = "sleep"
            /\ UNCHANGED <<results, idx, considered, invoked, attempt, calls,
                           last, summary, exported, nExports>>
    /\ UNCHANGED <<tasks, order, runs>>
    /\ UNCHANGED <<dbVars, connVars, genVars>>

\* time.sleep(delay) returns: the for loop of wrapper() goes to its next attempt,
\* or ends, and then wrapper() returns None
SleepReturns ==
    /\ pc = "sleep"
    /\ IF attempt + 1 <= CurrentTask.func.max_retries
       THEN /\ attempt' = attempt + 1
            /\ calls' = calls + 1
            /\ pc' = "call"
            /\ UNCHANGED <<results, idx, considered, invoked, raised, delays,
                           last, summary, exported, nExports>>
       ELSE Succeeds(NoneValue)
    /\ UNCHANGED <<tasks, order, runs>>
    /\ UNCHANGED <<dbVars, connVars, genVars>>

\* a KeyboardInterrupt while the operation runs or the wrapper sleeps: it is no
\* Exception, so neither wrapper() nor _execute_task catches it and run() ends
\* without recording the task, the summary or the export
Interrupt ==
    /\ pc \in {"call", "sleep"}
    /\ pc' = "aborted"
    /\ UNCHANGED <<tasks, results, order, idx, runs, attempt, calls, raised,
                   delays, last, invoked, considered, summary, exported, nExports>>
    /\ UNCHANGED <<dbVars, connVars, genVars>>

-----------------------------------------------------------------------------
(* The pipelines and operation outcomes each specification explores *)

\* Spec: pipelines of up to three tasks registered in the order A, B, C
NameOrder == <<"A", "B", "C">>
EngineDeps == {<<>>, <<"A">>, <<"B">>, <<"A", "B">>, <<"C">>}
EngineFuncs == {Plain, Retrying(2)}
EngineValues == {IntValue(2)}
EngineErrors == {"E1"}

AddNext ==
    /\ Len(tasks) < Len(NameOrder)
    /\ \E func \in EngineFuncs, deps \in EngineDeps, critical \in BOOLEAN :
          add(NameOrder[Len(tasks) + 1], func, deps, critical)

Next ==
    \/ AddNext
    \/ run
    \/ \E v \in EngineValues : OpReturns(v)
    \/ \E e \in EngineErrors : OpRaises(e)
    \/ SleepReturns
    \/ Interrupt

Spec == Init /\ [][Next]_vars

\* SpecResolve: every registry of up to three tasks, registered in any order,
\* with dependency lists of up to MaxDeps distinct names, resolved by run()
ResolveDeps ==
    {d \in SeqsUpTo(Names \cup {Unknown}, MaxDeps) :
        \A i, j \in 1..Len(d) : i # j => d[i] # d[j]}

AddAny ==
    /\ pc = "idle"
    /\ \E name \in Names \ Registered(tasks), deps \in ResolveDeps :
          add(name, Plain, deps, TRUE)

\* the first run() of the orchestrator
FirstRun ==
    /\ pc = "idle"
    /\ run

NextResolve ==
    \/ AddAny
    \/ FirstRun

SpecResolve == Init /\ [][NextResolve]_vars

\* SpecRetry: pipelines of one task, with every decorator
\* parameter up to CONFIG['MAX_RETRIES'], several return values and failures
RetryNameOrder == <<"A">>
RetryDeps == {<<>>, <<"A">>, <<Unknown>>}
RetryFuncs == {Plain} \cup {Retrying(n) : n \in 0..MAX_RETRIES}
RetryValues == {IntValue(0), IntValue(2), NoneValue}
RetryErrors == {"E1", "E2"}

AddRetry ==
    /\ Len(tasks) < Len(RetryNameOrder)
    /\ \E func \in RetryFuncs, deps \in RetryDeps, critical \in BOOLEAN :
          add(RetryNameOrder[Len(tasks) + 1], func, deps, critical)

NextRetry ==
    \/ AddRetry
    \/ run
    \/ \E v \in RetryValues : OpReturns(v)
    \/ \E e \in RetryErrors : OpRaises(e)
    \/ SleepReturns
    \/ Interrupt

SpecRetry == Init /\ [][NextRetry]_vars

-----------------------------------------------------------------------------
(* The dependency relation of a registry *)

DepsOf(T, name) ==
    IF name \in Registered(T)
    THEN {TaskOf(T, name).deps[i] : i \in 1..Len(TaskOf(T, name).deps)}
    ELSE {}

RECURSIVE DepClosure(_, _, _)
DepClosure(T, S, k) ==
    IF k = 0
    THEN S
    ELSE DepClosure(T, S \cup UNION {DepsOf(T, n) : n \in S}, k - 1)

\* the names name depends on, directly or transitively
Ancestors(T, name) == DepClosure(T, DepsOf(T, name), Len(T))

Acyclic(T) == \A n \in Registered(T) : n \notin Ancestors(T, n)

DepsRegistered(T) == \A n \in Registered(T) : DepsOf(T, n) \subseteq Registered(T)

Positions(ord, name) == {i \in 1..Len(ord) : ord[i] = name}

RegistrationOrder(T) == [i \in 1..Len(T) |-> T[i].name]

-----------------------------------------------------------------------------
(* C1: for a registry whose dependency relation is acyclic and whose         *)
(* dependencies all name registered tasks, the order run() got from          *)
(* _topological_sort holds every registered task, each strictly after each   *)
(* of its dependencies.                                                      *)
C1_DependenciesPrecede ==
    (runs > 0 /\ Acyclic(tasks) /\ DepsRegistered(tasks)) =>
        \A n \in Registered(tasks) :
            /\ Positions(order, n) # {}
            /\ \A j \in Positions(order, n) : \A d \in DepsOf(tasks, n) :
                   \E i \in Positions(order, d) : i < j

\* three tasks in an acyclic registry whose resolved order is not the
\* registration order
C1_Witness ==
    /\ runs > 0
    /\ Acyclic(tasks)
    /\ DepsRegistered(tasks)
    /\ Len(tasks) = 3
    /\ Len(order) = 3
    /\ order # RegistrationOrder(tasks)

(* C2: resolution never returns an order for a registry with a dependency    *)
(* cycle (it fails with CyclicDependencyError instead), so run() never       *)
(* proceeds past the resolver with a cyclic registry.                        *)
C2_CycleRejected == runs > 0 => Acyclic(tasks)

-----------------------------------------------------------------------------
(* The run in progress *)

Running == pc \in {"call", "sleep"}

StatusOf(name) == IF name \in DOMAIN results THEN results[name].status ELSE "PENDING"

\* the tasks in the resolved order of this run
InOrder == {order[i] : i \in 1..Len(order)}

\* the position in the resolved order of a task the order holds
Pos(name) == CHOOSE i \in 1..Len(order) : order[i] = name

\* the tasks whose operation this run invoked and that have ended (an
\* interrupted call never ends)
Finished == IF pc \in {"call", "sleep", "aborted"} THEN invoked \ {order[idx]} ELSE invoked

(* C3: while a task's operation is being invoked, every one of its           *)
(* dependencies has a recorded result with status SUCCESS (for an acyclic    *)
(* registry with registered dependencies: recorded by this run, before the   *)
(* task began); every task the loop reached without invoking its operation   *)
(* is SKIPPED, and so is every reached task with a dependency that this run  *)
(* left SKIPPED before it.                                                   *)
C3_RunsOnlyAfterSuccess ==
    /\ Running =>
          /\ \A d \in DepsOf(tasks, order[idx]) :
                d \in DOMAIN results /\ results[d].status = "SUCCESS"
          /\ (Acyclic(tasks) /\ DepsRegistered(tasks)) =>
                \A d \in DepsOf(tasks, order[idx]) :
                    d \in Finished /\ Pos(d) < idx
    /\ pc # "idle" =>
          /\ invoked \subseteq considered
          /\ \A n \in considered \ invoked : results[n].status = "SKIPPED"
          /\ \A n \in Finished : results[n].status \in {"SUCCESS", "FAILED"}
          /\ \A n \in considered : \A d \in DepsOf(tasks, n) \cap considered :
                (Pos(d) < Pos(n) /\ results[d].status \in {"SKIPPED", "FAILED"})
                    => (n \notin invoked /\ results[n].status = "SKIPPED")

\* a chain A <- B <- C: A failed, B was skipped for it and C for B
C3_Witness ==
    /\ pc = "done"
    /\ Len(tasks) = 3
    /\ tasks[2].deps = <<"A">>
    /\ tasks[3].deps = <<"B">>
    /\ invoked = {"A"}
    /\ StatusOf("A") = "FAILED"
    /\ StatusOf("B") = "SKIPPED"
    /\ StatusOf("C") = "SKIPPED"

\* run() ended at the break: the task at idx is critical and FAILED
Halted ==
    /\ pc = "done"
    /\ idx \in 1..Len(order)
    /\ order[idx] \in invoked
    /\ StatusOf(order[idx]) = "FAILED"
    /\ CurrentTask.critical

(* C4: when a critical task ends FAILED the engine halts: no task later in   *)
(* the resolved order is run or marked SKIPPED, and none of them has a       *)
(* result in the run record or in the export.                                *)
C4_HaltLeavesLaterTasksAbsent ==
    Halted =>
        \A j \in (idx + 1)..Len(order) :
            /\ order[j] \notin considered
            /\ order[j] \notin DOMAIN results
            /\ order[j] \notin DOMAIN exported

(* C5 as claimed: when a critical task B has failed all its retries, at the  *)
(* end of the run every task depending on B, directly or transitively, is    *)
(* SKIPPED and every task with no dependency path to B was still reached.    *)
C5_DependentsSkippedOthersRun ==
    Halted =>
        \A n \in InOrder \ {order[idx]} :
            IF order[idx] \in Ancestors(tasks, n)
            THEN StatusOf(n) = "SKIPPED"
            ELSE n \in considered

(* C5 as amended: when a critical task B has failed all its retries the      *)
(* engine halts at B: every task after B in the resolved order, dependent on *)
(* B or not, is neither run nor marked SKIPPED in that run, and every task    *)
(* before B was reached and keeps the result this run gave it.               *)
C5_HaltSkipsNothing ==
    \A b \in 1..Len(order) :
        ( /\ pc = "done"
          /\ order[b] \in invoked
          /\ StatusOf(order[b]) = "FAILED"
          /\ TaskOf(tasks, order[b]).critical ) =>
            /\ idx = b
            /\ \A j \in (b + 1)..Len(order) :
                  /\ order[j] \notin considered
                  /\ order[j] \notin invoked
            /\ \A j \in 1..(b - 1) :
                  /\ order[j] \in considered
                  /\ StatusOf(order[j]) \in {"SUCCESS", "FAILED", "SKIPPED"}
                  /\ StatusOf(order[j]) = "FAILED" => ~TaskOf(tasks, order[j]).critical
            /\ nExports = 1
            /\ exported = ExportResults(results)

\* A is critical and failed; B depends on A and C does not, and both come
\* after A in the order
C5_Witness ==
    /\ Halted
    /\ runs = 1
    /\ order = <<"A", "B", "C">>
    /\ idx = 1
    /\ "A" \in Ancestors(tasks, "B")
    /\ "A" \notin Ancestors(tasks, "C")
    /\ DOMAIN results = {"A"}

\* the tasks that failed in this run and are not critical
FailedNonCritical ==
    {n \in Finished : StatusOf(n) = "FAILED" /\ ~TaskOf(tasks, n).critical}

(* C6 as claimed: when a non-critical task B has failed all its retries, at  *)
(* the end of the run every direct dependent of B is SKIPPED and every later *)
(* task with no dependency path to B whose dependencies all succeeded was    *)
(* executed.                                                                 *)
C6_NonCriticalFailureSkipsDependents ==
    pc = "done" =>
        \A b \in FailedNonCritical : \A n \in InOrder \ {b} :
            /\ b \in DepsOf(tasks, n) => StatusOf(n) = "SKIPPED"
            /\ ( /\ Pos(n) > Pos(b)
                 /\ b \notin Ancestors(tasks, n)
                 /\ \A d \in DepsOf(tasks, n) : StatusOf(d) = "SUCCESS" )
                   => n \in invoked

(* C6 as amended: a non-critical task's failure never stops the run (run()   *)
(* ends early only at a critical task that FAILED); of the tasks the engine  *)
(* reaches after the failed non-critical task B, every direct dependent of B *)
(* is SKIPPED without being invoked and every task with no dependency path   *)
(* to B whose dependencies all succeeded is executed.                        *)
C6_NonCriticalFailureContinues ==
    /\ pc = "done" =>
          \/ idx = Len(order) + 1 /\ considered = InOrder
          \/ Halted
    /\ pc # "idle" =>
          \A b \in FailedNonCritical : \A n \in considered \ {b} :
              Pos(n) > Pos(b) =>
                  /\ b \in DepsOf(tasks, n) =>
                        (StatusOf(n) = "SKIPPED" /\ n \notin invoked)
                  /\ ( /\ b \notin Ancestors(tasks, n)
                       /\ \A d \in DepsOf(tasks, n) : StatusOf(d) = "SUCCESS" )
                        => n \in invoked

\* A is not critical and failed; B depends on A and was skipped; C does not
\* and was executed
C6_Witness ==
    /\ pc = "done"
    /\ order = <<"A", "B", "C">>
    /\ FailedNonCritical = {"A"}
    /\ "A" \in DepsOf(tasks, "B")
    /\ DepsOf(tasks, "C") = {}
    /\ StatusOf("B") = "SKIPPED"
    /\ invoked = {"A", "C"}
    /\ StatusOf("C") = "SUCCESS"

\* the pipeline {A (no deps), B (no deps, critical, maxRetries = 2),
\* C (deps = [A, B], critical)}, in its first run, after the call of B's
\* callable ended: A's operation returned 2 records and every invocation of
\* B's operation raised
Scenario7 ==
    /\ runs = 1
    /\ order = <<"A", "B", "C">>
    /\ tasks[1].deps = <<>>
    /\ tasks[2] = Task("B", Retrying(2), <<>>, TRUE)
    /\ tasks[3].deps = <<"A", "B">>
    /\ tasks[3].critical
    /\ StatusOf("A") = "SUCCESS"
    /\ results["A"].records = 2
    /\ last.task = "B"
    /\ Len(last.raised) = last.calls

(* C7 as claimed: in that scenario the run ends with A = SUCCESS (2          *)
(* records), B = FAILED after exactly 3 attempts, C = SKIPPED, and one       *)
(* SUCCESS, one FAILED and one SKIPPED result.                               *)
C7_ScenarioEndsWithSkippedC ==
    Scenario7 =>
        /\ pc = "done"
        /\ StatusOf("B") = "FAILED"
        /\ last.calls = 3
        /\ StatusOf("C") = "SKIPPED"
        /\ CountStatus(results, "SUCCESS") = 1
        /\ CountStatus(results, "FAILED") = 1
        /\ CountStatus(results, "SKIPPED") = 1

(* C7 as amended: in that scenario the run ends with A = SUCCESS (2          *)
(* records), B = FAILED after exactly 3 attempts, and the engine halted at B *)
(* before C: C was not reached and has no result, the summary logs 1 success *)
(* and 1 failure, and no result is SKIPPED.                                  *)
C7_ScenarioHaltsBeforeC ==
    Scenario7 =>
        /\ pc = "done"
        /\ StatusOf("B") = "FAILED"
        /\ last.calls = 3
        /\ last.ended = "raised"
        /\ "C" \notin considered
        /\ "C" \notin DOMAIN results
        /\ "C" \notin DOMAIN exported
        /\ summary = [success |-> 1, failed |-> 1]
        /\ CountStatus(results, "SUCCESS") = 1
        /\ CountStatus(results, "FAILED") = 1
        /\ CountStatus(results, "SKIPPED") = 0

C7_Witness ==
    /\ Scenario7
    /\ pc = "done"
    /\ last.calls = 3
    /\ DOMAIN results = {"A", "B"}

-----------------------------------------------------------------------------
(* retry_with_backoff: claims about one call of a decorated callable *)

\* the decorator parameter of the task whose call ended last
LastMaxRetries == TaskOf(tasks, last.task).func.max_retries

LastDecorated == last.ended # "none" /\ TaskOf(tasks, last.task).func.decorated

(* C8: a call of a callable decorated with max_retries = N invokes the       *)
(* operation at most N + 1 times, one attempt after another; it returns at   *)
(* the first attempt that succeeds, with that attempt's value, after only    *)
(* failed attempts; it raises only after N + 1 failed attempts, and then the *)
(* last failure, whatever the kinds of the failures.                         *)
C8_AtMostNPlusOneAttempts ==
    /\ (Running /\ CurrentTask.func.decorated) =>
          /\ calls = attempt + 1
          /\ calls <= CurrentTask.func.max_retries + 1
          /\ Len(raised) = IF pc = "call" THEN calls - 1 ELSE calls
    /\ (LastDecorated /\ last.ended = "returned") =>
          /\ last.calls = Len(last.raised) + 1
          /\ last.calls <= LastMaxRetries + 1
          /\ results[last.task].status = "SUCCESS"
          /\ results[last.task].records = IF last.value.isInt THEN last.value.n ELSE 0
    /\ (LastDecorated /\ last.ended = "raised") =>
          /\ last.calls = LastMaxRetries + 1
          /\ Len(last.raised) = last.calls
          /\ results[last.task].error = last.raised[last.calls]

\* a call with max_retries = 3 that returned 2 at its third attempt, after two
\* failures of different kinds
C8_Witness ==
    /\ LastDecorated
    /\ LastMaxRetries = 3
    /\ last.ended = "returned"
    /\ last.raised = <<"E1", "E2">>
    /\ last.calls = 3
    /\ last.value = IntValue(2)

(* C9: the delay slept after the k-th failed attempt (k from 0) is           *)
(* RETRY_DELAY * RETRY_BACKOFF^k; with RETRY_DELAY = 2, RETRY_BACKOFF = 2    *)
(* and max_retries = 3 a call whose attempts all fail sleeps exactly         *)
(* <<2, 4, 8>>; no delay follows the final failed attempt.                   *)
C9_BackoffDelays ==
    /\ (Running /\ CurrentTask.func.decorated) =>
          /\ Len(delays) = Len(raised)
          /\ \A k \in 1..Len(delays) : delays[k] = RETRY_DELAY * RETRY_BACKOFF^(k - 1)
    /\ LastDecorated =>
          \A k \in 1..Len(last.delays) :
              last.delays[k] = RETRY_DELAY * RETRY_BACKOFF^(k - 1)
    /\ (LastDecorated /\ last.ended = "raised") =>
          /\ Len(last.delays) = Len(last.raised) - 1
          /\ LastMaxRetries = 3 => last.delays = <<2, 4, 8>>

C9_Witness ==
    /\ LastDecorated
    /\ LastMaxRetries = 3
    /\ last.ended = "raised"
    /\ last.calls = 4
    /\ last.delays = <<2, 4, 8>>

(* C10: when the call of a task's callable ends by raising (the retries, if  *)
(* any, exhausted), run() is not left: the task gets a result with status    *)
(* FAILED, the last failure as its error and its end time set.               *)
C10_FailureBecomesResult ==
    last.ended = "raised" =>
        /\ pc # "aborted"
        /\ last.task \in DOMAIN results
        /\ results[last.task].status = "FAILED"
        /\ results[last.task].error = last.raised[Len(last.raised)]
        /\ results[last.task].ended
        /\ last.task \in DOMAIN exported => exported[last.task].status = "FAILED"

\* three failures, the last of another kind than the first two
C10_Witness ==
    /\ last.ended = "raised"
    /\ last.raised = <<"E1", "E1", "E2">>
    /\ results[last.task].error = "E2"
    /\ pc = "done"

-----------------------------------------------------------------------------
(* The run recorder and the registry *)

\* a run() execution was started and is over: it returned, or an interrupt
\* ended it
RunOver == runs > 0 /\ pc \in {"done", "aborted"}

(* C11: the export is written exactly once per run() execution, and only     *)
(* after the engine has halted or completed: none while a task is still to   *)
(* be run, one when the execution is over, and nothing is recorded after it. *)
C11_ExportedOncePerRun ==
    /\ pc \in {"call", "sleep"} => nExports = 0
    /\ RunOver =>
          /\ nExports = 1
          /\ exported = ExportResults(results)
          /\ summary = PrintSummary(results)

\* what holds of the executions of run() that return
C11_ReturnedRunExportedOnce ==
    /\ pc \in {"call", "sleep"} => nExports = 0
    /\ (runs > 0 /\ pc = "done") =>
          /\ nExports = 1
          /\ exported = ExportResults(results)
          /\ summary = PrintSummary(results)

\* SpecRegistry: pipelines over two names in which add() is called any number of
\* times, also for a name that is registered already, before and between runs
RegistryNames == {"A", "B"}
RegistryFuncs == {Plain, Retrying(1)}
RegistryDeps == {<<>>, <<"A">>, <<Unknown>>}
RegistryValues == {IntValue(2)}
RegistryErrors == {"E1"}

Register ==
    \E name \in RegistryNames, func \in RegistryFuncs, deps \in RegistryDeps,
       critical \in BOOLEAN :
          add(name, func, deps, critical)

NextRegistry ==
    \/ Register
    \/ run
    \/ \E v \in RegistryValues : OpReturns(v)
    \/ \E e \in RegistryErrors : OpRaises(e)
    \/ SleepReturns
    \/ Interrupt

SpecRegistry == Init /\ [][NextRegistry]_vars

(* C12: registering a task under a name that is already in the registry      *)
(* fails: no step replaces the task registered under a name (its operation,  *)
(* dependencies and criticality stay what they were).                        *)
C12_RegisteredTaskNeverReplaced ==
    [][\A n \in Registered(tasks) :
          /\ n \in Registered(tasks')
          /\ TaskOf(tasks', n) = TaskOf(tasks, n)]_vars

(* C13: a pipeline in which some task declares a dependency that is not in   *)
(* the registry never runs: run() invokes no task operation of it.           *)
C13_UnknownDependencyRejected ==
    (runs > 0 /\ ~DepsRegistered(tasks)) => invoked = {}

\* the tasks run() has stored a result for in this execution: the skipped ones
\* and those whose callable returned or raised
Recorded == (considered \ invoked) \cup Finished

\* the status of task n in this execution of run(): PENDING until the for loop
\* reaches it, RUNNING while _execute_task holds its result, then what run()
\* stored
RunStatus(n) ==
    IF n \in Recorded THEN results[n].status
    ELSE IF n \in considered THEN "RUNNING"
    ELSE "PENDING"

(* C14: within a run each task's status only moves PENDING -> RUNNING ->     *)
(* SUCCESS or FAILED, or PENDING -> SKIPPED: it never enters RUNNING again,  *)
(* and a result that is SUCCESS, FAILED or SKIPPED is never changed in that  *)
(* run.                                                                      *)
C14_StatusTransitions ==
    [][runs' = runs =>
          \A n \in Names :
              \/ /\ RunStatus(n)' = RunStatus(n)
                 /\ n \in Recorded => results'[n] = results[n]
              \/ RunStatus(n) = "PENDING" /\ RunStatus(n)' \in {"RUNNING", "SKIPPED"}
              \/ RunStatus(n) = "RUNNING" /\ RunStatus(n)' \in {"SUCCESS", "FAILED"}]_vars

\* a second run that gave one task each of the three terminal statuses
C14_Witness ==
    /\ runs = 2
    /\ pc = "done"
    /\ Recorded = Names
    /\ {RunStatus(n) : n \in Names} = {"SUCCESS", "FAILED", "SKIPPED"}

(* C15: at the end of every run() execution, a second one on the same object *)
(* included, the run record and the export hold a result for exactly the     *)
(* tasks the engine considered in that execution; when no critical task      *)
(* failed these are all the tasks of the resolved order.                     *)
C15_RecordHoldsConsideredTasks ==
    (runs > 0 /\ pc = "done") =>
        /\ DOMAIN results = considered
        /\ DOMAIN exported = considered
        /\ ~Halted => considered = InOrder

-----------------------------------------------------------------------------
(* The stage functions of orchestrator.py, for the reviews table.  Each      *)
(* action is one invocation of the undecorated function; strict tells        *)
(* whether the session's sql_mode is strict.  The rows' product_id,          *)
(* customer_id, review_text and review_date are taken to be well formed.     *)

\* create_schema: drops and creates the production and the staging tables
create_schema ==
    /\ stg' = <<>>
    /\ prod' = {}
    /\ stage' = EndedStage("orchestrator", "create_schema", NoFile, "returned",
                           14, TRUE, {}, FALSE)
    /\ UNCHANGED <<audit, orchVars, connVars, genVars>>

\* lines 346-352: whether db.execute(query, values) stores the row, or raises
\* and the row is skipped
Accepts(raw, strict) == ~(strict /\ raw.rating = LongRating)

\* load_to_staging, lines 328-354: the content of the staging table after the
\* function read the rows of an existing file
Loaded(csv, strict) ==
    IF csv.rows = <<>>
    THEN stg
    ELSE LET rows == SelectSeq(csv.rows, LAMBDA r : Accepts(r, strict))
         IN  [i \in 1..Len(rows) |-> StagingRow(rows[i])]

load_to_staging(csv, strict) ==
    /\ IF ~csv.exists
       THEN /\ stage' = EndedStage("orchestrator", "load_to_staging", csv, "raised",
                                   0, FALSE, {}, FALSE)
            /\ UNCHANGED stg
       ELSE /\ stg' = Loaded(csv, strict)
            /\ stage' = EndedStage("orchestrator", "load_to_staging", csv, "returned",
                                   IF csv.rows = <<>> THEN 0 ELSE Len(stg'),
                                   TRUE, {}, FALSE)
    /\ UNCHANGED <<prod, audit, orchVars, connVars, genVars>>

\* transform_and_validate('reviews'): neither branch applies, the function
\* counts the rows of the staging table
transform_and_validate ==
    /\ stage' = EndedStage("orchestrator", "transform_and_validate", NoFile,
                           "returned", Len(stg), TRUE, {}, FALSE)
    /\ UNCHANGED <<stg, prod, audit, orchVars, connVars, genVars>>

\* load_to_production('reviews'), lines 400-415: the INSERT ... SELECT takes
\* every row of the staging table; it raises on a duplicate review_id and, in
\* strict mode, on a rating that is no integer; the function returns the number
\* of rows of the production table
load_to_production(strict) ==
    LET rows == stg
        copied == {ProdRow(rows[i], Unsigned(rows[i].rating)) : i \in 1..Len(rows)}
    IN  /\ IF \/ DuplicateKey(rows, prod)
              \/ strict /\ \E i \in 1..Len(rows) : ~IsDigits(rows[i].rating)
           THEN /\ stage' = EndedStage("orchestrator", "load_to_production", NoFile,
                                       "raised", 0, FALSE, {}, FALSE)
                /\ UNCHANGED prod
           ELSE /\ prod' = prod \cup copied
                /\ stage' = EndedStage("orchestrator", "load_to_production", NoFile,
                                       "returned", Cardinality(prod'), TRUE,
                                       Ids(rows), FALSE)
        /\ UNCHANGED <<stg, audit, orchVars, connVars, genVars>>

\* the CSV files the stages are run on
Batch5 ==
    <<RawRow(1, "5"), RawRow(2, "4"), RawRow(3, "invalid"), RawRow(4, "1"),
      RawRow(5, "3")>>

Sources ==
    {NoFile, CsvFile(<<>>), CsvFile(<<RawRow(1, "5")>>),
     CsvFile(<<RawRow(0, "3"), RawRow(2, "9")>>),
     CsvFile(<<RawRow(3, LongRating)>>), CsvFile(Batch5),
     MultilineCsv(<<RawRow(1, "5")>>)}

NextStaged ==
    \/ create_schema
    \/ \E csv \in Sources, strict \in BOOLEAN : load_to_staging(csv, strict)
    \/ transform_and_validate
    \/ \E strict \in BOOLEAN : load_to_production(strict)

SpecStaged == Init /\ [][NextStaged]_vars

-----------------------------------------------------------------------------
(* The stage methods of AetherMartELTPipeline (M4_p2.py), for the reviews    *)
(* table.  fails tells whether a statement of the stage raises, auditOk      *)
(* whether the INSERT of log_audit succeeds.                                 *)

MaxAudit == 3
MaxProducts == 6
MaxCount == 7

\* log_audit: the record is appended, unless its INSERT raises, which the
\* method only logs
log_audit(auditOk, record) ==
    audit' = IF auditOk THEN Append(audit, record) ELSE audit

\* create_all_schemas: drops and creates every table, elt_audit_log included
create_all_schemas ==
    /\ stg' = <<>>
    /\ prod' = {}
    /\ audit' = <<>>
    /\ stage' = EndedStage("M4_p2", "create_all_schemas", NoFile, "returned",
                           0, TRUE, {}, FALSE)
    /\ UNCHANGED <<orchVars, connVars, genVars>>

\* AetherMartELTPipeline.load_to_staging: TRUNCATE, then LOAD DATA LOCAL INFILE,
\* which keeps every row of the file
M4_load_to_staging(csv, fails, auditOk) ==
    /\ Len(audit) < MaxAudit
    /\ IF ~csv.exists
       THEN /\ stage' = EndedStage("M4_p2", "load_to_staging", csv, "returned",
                                   0, FALSE, {}, FALSE)
            /\ UNCHANGED <<stg, audit>>
       ELSE IF fails
       THEN /\ stg' \in {stg, <<>>}
            /\ log_audit(auditOk, AuditRecord("LOAD_STAGING", 0, 0, 0, "FAILED"))
            /\ stage' = EndedStage("M4_p2", "load_to_staging", csv, "returned",
                                   0, FALSE, {}, auditOk)
       ELSE /\ stg' = [i \in 1..Len(csv.rows) |-> StagingRow(csv.rows[i])]
            /\ log_audit(auditOk, AuditRecord("LOAD_STAGING", csv.lines,
                                              Len(stg'), 0, "SUCCESS"))
            /\ stage' = EndedStage("M4_p2", "load_to_staging", csv, "returned",
                                   Len(stg'), TRUE, {}, auditOk)
    /\ UNCHANGED <<prod, orchVars, connVars, genVars>>

\* _transform_reviews: the three UPDATE statements applied to one row
TransformReview(row) ==
    LET rating == IF row.rating \in {"NULL", "", "invalid"} \/ ~IsDigits(row.rating)
                  THEN Null ELSE row.rating
        valid == /\ row.review_id > 0
                 /\ rating # Null
                 /\ IsDigits(rating)
                 /\ Unsigned(rating) \in 1..5
    IN  IF valid
        THEN [row EXCEPT !.rating = rating, !.is_valid = TRUE,
                         !.error_message = Null]
        ELSE IF ~row.is_valid
        THEN [row EXCEPT !.rating = rating, !.is_valid = FALSE,
                         !.error_message = "Missing or invalid rating (must be 1-5)"]
        ELSE [row EXCEPT !.rating = rating]

\* transform_staging_data('reviews')
transform_staging_data(fails, auditOk) ==
    /\ Len(audit) < MaxAudit
    /\ IF fails
       THEN /\ log_audit(auditOk, AuditRecord("TRANSFORM", 0, 0, 0, "FAILED"))
            /\ stage' = EndedStage("M4_p2", "transform_staging_data", NoFile,
                                   "returned", 0, FALSE, {}, auditOk)
            /\ UNCHANGED stg
       ELSE /\ stg' = [i \in 1..Len(stg) |-> TransformReview(stg[i])]
            /\ log_audit(auditOk,
                         AuditRecord("TRANSFORM", Len(stg), Len(Valid(stg')),
                                     Len(stg) - Len(Valid(stg')), "SUCCESS"))
            /\ stage' = EndedStage("M4_p2", "transform_staging_data", NoFile,
                                   "returned", Len(Valid(stg')), TRUE, {}, auditOk)
    /\ UNCHANGED <<prod, orchVars, connVars, genVars>>

\* AetherMartELTPipeline.load_to_production('reviews'): _load_reviews_to_prod
\* copies the rows flagged valid; a duplicate review_id makes the INSERT raise
M4_load_to_production(auditOk) ==
    LET rows == Valid(stg)
        copied == {ProdRow(rows[i], Unsigned(rows[i].rating)) : i \in 1..Len(rows)}
    IN  /\ Len(audit) < MaxAudit
        /\ IF Len(rows) = 0
           THEN /\ stage' = EndedStage("M4_p2", "load_to_production", NoFile,
                                       "returned", 0, TRUE, {}, FALSE)
                /\ UNCHANGED <<prod, audit>>
           ELSE IF DuplicateKey(rows, prod)
           THEN /\ log_audit(auditOk, AuditRecord("LOAD_PROD", 0, 0, 0, "FAILED"))
                /\ stage' = EndedStage("M4_p2", "load_to_production", NoFile,
                                       "returned", 0, FALSE, {}, auditOk)
                /\ UNCHANGED prod
           ELSE /\ prod' = prod \cup copied
                /\ log_audit(auditOk, AuditRecord("LOAD_PROD", Len(rows), Len(rows),
                                                  0, "SUCCESS"))
                /\ stage' = EndedStage("M4_p2", "load_to_production", NoFile,
                                       "returned", Len(rows), TRUE, Ids(rows), auditOk)
        /\ UNCHANGED <<stg, orchVars, connVars, genVars>>

NextELT ==
    \/ create_all_schemas
    \/ \E csv \in Sources, fails, auditOk \in BOOLEAN :
          M4_load_to_staging(csv, fails, auditOk)
    \/ \E fails, auditOk \in BOOLEAN : transform_staging_data(fails, auditOk)
    \/ \E auditOk \in BOOLEAN : M4_load_to_production(auditOk)

SpecELT == Init /\ [][NextELT]_vars

-----------------------------------------------------------------------------
(* The staged-validation pattern: claims about the stage functions *)

\* the last stage invocation was this function, of either implementation, and
\* it succeeded
Succeeded(names) == stage.name \in names /\ stage.ended = "returned" /\ stage.ok

Promoted == Succeeded({"load_to_production"})

Staged == Succeeded({"load_to_staging"})

Transformed == Succeeded({"transform_and_validate", "transform_staging_data"})

(* C16: load_to_production copies a staging record to production only if    *)
(* the record's validity flag is true at promotion time.                     *)
C16_OnlyValidPromoted ==
    Promoted => stage.promoted \subseteq Ids(Valid(stg))

(* C17: after load_to_staging returns successfully the staging table holds   *)
(* exactly the records accepted from the source just loaded, as many as the  *)
(* function counted, and nothing of an earlier load, also for a source with  *)
(* zero records.                                                             *)
C17_StagingHoldsLoadedSource ==
    Staged =>
        /\ Len(stg) = stage.value
        /\ Len(stg) <= Len(stage.source.rows)
        /\ \A i \in 1..Len(stg) :
              \E j \in 1..Len(stage.source.rows) :
                  stg[i] = StagingRow(stage.source.rows[j])

(* C18: after the transform/validate phase of the table completes, every     *)
(* staging record is flagged valid with no error message, or flagged invalid *)
(* with an error message.                                                    *)
C18_EveryRecordDecided ==
    Transformed =>
        \A i \in 1..Len(stg) :
            \/ stg[i].is_valid /\ stg[i].error_message = Null
            \/ ~stg[i].is_valid /\ stg[i].error_message # Null

(* C19: load_to_production returns the number of records it copied in that   *)
(* invocation, which is the number of staging records flagged valid; with no *)
(* valid record it returns 0 and copies nothing; for the batch of 5 reviews  *)
(* of which only row 3 is flagged invalid it returns 4.                      *)
C19_ReturnsCountPromoted ==
    Promoted =>
        /\ stage.value = Cardinality(stage.promoted)
        /\ stage.value = Len(Valid(stg))
        /\ (Ids(stg) = Ids(Batch5) /\ Ids(Valid(stg)) = {1, 2, 4, 5}) => stage.value = 4

(* C20: every invocation of a stage method of the ELT pipeline writes an     *)
(* audit record, whatever its outcome: success, failure or nothing to load.  *)
C20_EveryStageAudited ==
    (stage.impl = "M4_p2"
        /\ stage.name \in {"load_to_staging", "transform_staging_data",
                           "load_to_production"})
      => stage.audited

-----------------------------------------------------------------------------
(* The resolved order of arbitrary registries *)

Unrelated(T, n, m) ==
    /\ n # m
    /\ n \notin Ancestors(T, m)
    /\ m \notin Ancestors(T, n)

\* every dependency of every task names a task registered before it
DepsRegisteredEarlier(T) ==
    \A i \in 1..Len(T) : \A k \in 1..Len(T[i].deps) :
        \E j \in 1..(i - 1) : T[j].name = T[i].deps[k]

Resolved == runs > 0

C27_OrderIsPermutation ==
    Resolved =>
        /\ Len(order) = Len(tasks)
        /\ \A n \in Registered(tasks) : Cardinality(Positions(order, n)) = 1
        /\ \A i \in 1..Len(order) : order[i] \in Registered(tasks)

C27_Witness ==
    /\ Resolved
    /\ Len(tasks) = 3
    /\ \E n \in Registered(tasks) : n \in Ancestors(tasks, n)
    /\ \E n \in Registered(tasks) : n \in DepsOf(tasks, n)
    /\ \E n \in Registered(tasks) : Unknown \in DepsOf(tasks, n)

(* C28: when every task depends only on tasks registered before it, the      *)
(* resolved order is exactly the registration order.                         *)
C28_EarlierDepsKeepRegistrationOrder ==
    (Resolved /\ DepsRegisteredEarlier(tasks)) => order = RegistrationOrder(tasks)

C28_Witness ==
    /\ Resolved
    /\ DepsRegisteredEarlier(tasks)
    /\ Len(tasks) = 3
    /\ Len(tasks[2].deps) = 1
    /\ Len(tasks[3].deps) = 2
    /\ order = RegistrationOrder(tasks)

-----------------------------------------------------------------------------
(* Interrupts, run ids and the retry policy of the engine *)

\* run() was left by a KeyboardInterrupt raised in time.sleep(delay): every
\* attempt made so far has failed
InterruptedInBackoff ==
    /\ pc = "aborted"
    /\ calls > 0
    /\ Len(raised) = calls

(* C22: when a user-level interrupt arrives while a task waits in a retry    *)
(* backoff delay, the task is recorded FAILED in the run record, never left  *)
(* without a terminal result.                                                *)
C22_InterruptRecordedFailed ==
    InterruptedInBackoff =>
        /\ order[idx] \in DOMAIN results
        /\ results[order[idx]].status = "FAILED"
        /\ order[idx] \in DOMAIN exported

\* __init__, line 507: self.run_id, the time of construction to the second
run_id == "%Y%m%d_%H%M%S"

\* the run id of the k-th execution of run() of the object: run() reads
\* self.run_id and never assigns it
RunIdOf(k) == run_id

\* _export_results, line 645: the file the k-th execution writes
ExportPath(k) == <<"results_", RunIdOf(k), ".json">>

(* C23: every execution of run() carries a run id that no other execution    *)
(* has, so no execution's export is written under another execution's id.    *)
C23_RunIdUniquePerExecution ==
    \A j, k \in 1..runs :
        j # k => RunIdOf(j) # RunIdOf(k) /\ ExportPath(j) # ExportPath(k)

(* C24: the engine invokes every operation through the retry policy: an      *)
(* operation that keeps failing is attempted maxRetries + 1 times, with a    *)
(* backoff delay between attempts, before its task is marked FAILED.         *)
C24_EveryOperationRetried ==
    last.ended = "raised" =>
        LET n == IF LastDecorated THEN LastMaxRetries ELSE MAX_RETRIES
        IN  /\ last.calls = n + 1
            /\ Len(last.delays) = n

-----------------------------------------------------------------------------
(* The shared connection `db` under the engine *)

\* DatabaseConnection.execute called by the operation of the current task with
\* an INSERT, UPDATE or DELETE: the write joins the open transaction
OpExecutes ==
    /\ pc = "call"
    /\ order[idx] \notin pending
    /\ pending' = pending \cup {order[idx]}
    /\ UNCHANGED <<orchVars, dbVars, durable, genVars>>

\* DatabaseConnection.commit called by the operation of the current task:
\* conn.commit() makes every write of the open transaction durable
OpCommits ==
    /\ pc = "call"
    /\ pending # {}
    /\ durable' = durable \cup
                    {[writer |-> w, committer |-> order[idx]] : w \in pending}
    /\ pending' = {}
    /\ UNCHANGED <<orchVars, dbVars, genVars>>

\* SpecConn: pipelines of up to two undecorated tasks whose operations write,
\* commit, return or raise in any order
ConnNameOrder == <<"A", "B">>
ConnDeps == {<<>>, <<"A">>}

AddConn ==
    /\ Len(tasks) < Len(ConnNameOrder)
    /\ \E deps \in ConnDeps, critical \in BOOLEAN :
          add(ConnNameOrder[Len(tasks) + 1], Plain, deps, critical)

NextConn ==
    \/ AddConn
    \/ run
    \/ OpExecutes
    \/ OpCommits
    \/ \E v \in EngineValues : OpReturns(v)
    \/ \E e \in EngineErrors : OpRaises(e)

SpecConn == Init /\ [][NextConn]_vars

\* the tasks that ended FAILED in this run
FailedInRun == {n \in Finished : StatusOf(n) = "FAILED"}

(* C25: after a task ends FAILED none of its uncommitted writes remain       *)
(* pending on the shared connection, and a commit issued by a later task     *)
(* never makes a failed task's partial writes durable.                       *)
C25_FailedWritesNeverDurable ==
    runs = 1 =>
        /\ pending \cap FailedInRun = {}
        /\ \A w \in durable :
              w.writer # w.committer => w.writer \notin FailedInRun

-----------------------------------------------------------------------------
(* The first run over arbitrary registries *)

\* SpecFirstRun: the registries of SpecResolve, and a first run() in which
\* each invoked operation returns or raises
NextFirstRun ==
    \/ AddAny
    \/ FirstRun
    \/ \E v \in EngineValues : OpReturns(v)
    \/ \E e \in EngineErrors : OpRaises(e)

SpecFirstRun == Init /\ [][NextFirstRun]_vars

\* the task lies on a dependency cycle or names a dependency never registered
Unrunnable(T, n) ==
    \/ n \in Ancestors(T, n)
    \/ ~(DepsOf(T, n) \subseteq Registered(T))

(* C29: in the first run() the operation of a task that lies on a dependency *)
(* cycle (a self-dependency included) or depends on an unregistered name is  *)
(* never invoked, and every such task the engine reached is SKIPPED.         *)
C29_UnrunnableNeverInvoked ==
    runs = 1 =>
        \A n \in Registered(tasks) :
            Unrunnable(tasks, n) =>
                /\ n \notin invoked
                /\ n \in considered => StatusOf(n) = "SKIPPED"

C29_Witness ==
    /\ runs = 1
    /\ pc = "done"
    /\ \E n \in invoked : StatusOf(n) = "SUCCESS"
    /\ \E n \in considered :
          n \in Ancestors(tasks, n) /\ n \notin DepsOf(tasks, n)
            /\ StatusOf(n) = "SKIPPED"
    /\ \E n \in considered : Unknown \in DepsOf(tasks, n) /\ StatusOf(n) = "SKIPPED"

-----------------------------------------------------------------------------
(* The counts of the audit log *)

SuccessRecords == {i \in 1..Len(audit) : audit[i].status = "SUCCESS"}

\* transform_staging_data has just returned after transforming the batch of 5
TransformedBatch5 ==
    /\ stage.impl = "M4_p2"
    /\ Transformed
    /\ stage.audited
    /\ Ids(stg) = Ids(Batch5)
    /\ Ids(Valid(stg)) = {1, 2, 4, 5}

(* C30: every audit record the ELT pipeline writes with status SUCCESS, for  *)
(* LOAD_STAGING, TRANSFORM or LOAD_PROD, has records_processed =              *)
(* records_valid + records_invalid; the record of a transform over 5 rows of *)
(* which 1 is invalid shows 5 / 4 / 1.                                       *)
C30_AuditCountsAddUp ==
    /\ \A i \in SuccessRecords :
          audit[i].records_processed
              = audit[i].records_valid + audit[i].records_invalid
    /\ TransformedBatch5 =>
          audit[Len(audit)] = AuditRecord("TRANSFORM", 5, 4, 1, "SUCCESS")

-----------------------------------------------------------------------------
(* gen_prod_desc_and_embed.py: the batch loop of main() *)

BATCH_SIZE == 5

\* the counters are kept up to MaxCount: every limit the model runs with is at
\* most MaxCount, so the comparison with the limit is that of the code
AddUpTo(a, b) == IF a + b > MaxCount THEN MaxCount ELSE a + b

\* `if MAX_PRODUCTS_TO_PROCESS and ...`: None and 0 are false
LimitSet(m) == ~m.none /\ m.n # 0

\* get_products_needing_processing(cursor, limit=BATCH_SIZE): the SELECT has
\* no ORDER BY, so any BATCH_SIZE of the products needing processing
Batches(P) ==
    {b \in SUBSET P :
        Cardinality(b) = IF Cardinality(P) < BATCH_SIZE
                         THEN Cardinality(P) ELSE BATCH_SIZE}

\* main(), lines 282-302: the script is run with setting m on a catalogue
\* where the products P need processing, those of F failing on every attempt
GenStart(P, F, m) ==
    /\ gpc = "idle"
    /\ needing' = P
    /\ failing' = F
    /\ MAX_PRODUCTS_TO_PROCESS' = m
    /\ gpc' = IF P = {} THEN "ended" ELSE "fetch"
    /\ UNCHANGED <<overall_successful, overall_failed, batch_products>>
    /\ UNCHANGED <<orchVars, dbVars, connVars>>

\* main(), lines 304-317: the head of the while loop, up to its two breaks
GenFetch ==
    /\ gpc = "fetch"
    /\ \E b \in Batches(needing) :
          /\ batch_products' = b
          /\ gpc' = IF b = {}
                    THEN "ended"
                    ELSE IF /\ LimitSet(MAX_PRODUCTS_TO_PROCESS)
                            /\ overall_successful + overall_failed
                                  >= MAX_PRODUCTS_TO_PROCESS.n
                    THEN "ended"
                    ELSE "process"
    /\ UNCHANGED <<needing, failing, MAX_PRODUCTS_TO_PROCESS, overall_successful,
                   overall_failed>>
    /\ UNCHANGED <<orchVars, dbVars, connVars>>

\* main(), lines 319-361: process_batch, commit, the counters and the wait;
\* process_batch counts a product whose processing raised and goes on
GenProcess ==
    /\ gpc = "process"
    /\ needing' = needing \ (batch_products \ failing)
    /\ overall_successful' =
          AddUpTo(overall_successful, Cardinality(batch_products \ failing))
    /\ overall_failed' =
          AddUpTo(overall_failed, Cardinality(batch_products \cap failing))
    /\ gpc' = "fetch"
    /\ UNCHANGED <<failing, MAX_PRODUCTS_TO_PROCESS, batch_products>>
    /\ UNCHANGED <<orchVars, dbVars, connVars>>

\* SpecGen: every catalogue of up to MaxProducts products, any of them failing
\* on every attempt, and the settings None, 0, 1 and MaxCount
GenProducts == 1..MaxProducts
GenLimits == {NoLimit, Limit(0), Limit(1), Limit(MaxCount)}

NextGen ==
    \/ \E P \in SUBSET GenProducts, m \in GenLimits :
          \E F \in SUBSET P : GenStart(P, F, m)
    \/ GenFetch
    \/ GenProcess

SpecGen == Init /\ [][NextGen]_vars

\* the script is one sequential process: once started, its loop keeps taking
\* its next step
SpecGenFair == SpecGen /\ WF_vars(GenFetch) /\ WF_vars(GenProcess)

(* C26: the batch loop eventually terminates for every setting of            *)
(* MAX_PRODUCTS_TO_PROCESS, a number or None, even when some product fails   *)
(* on every processing attempt and so keeps being selected.                  *)
C26_BatchLoopTerminates == (gpc = "fetch") ~> (gpc = "ended")

=============================================================================
